---- MODULE Spec2Model ----
(***************************************************************************)
(* Model of ModifiedPCP (Kattis "Limited Correspondence", main.py): the    *)
(* substring trie, the four filters, the depth-first Matcher and solve.    *)
(*                                                                         *)
(* Strings are sequences of letter codes (1 = 'a', 2 = 'b', ...); Python's *)
(* 0-based indices of pairs are kept (a_strings is a function on 0..N-1),  *)
(* and a Python slice x[i:j] is SubSeq(x, i + 1, j).                       *)
(***************************************************************************)
EXTENDS Integers, Sequences, FiniteSets, TLC

\* Total number of characters of one problem instance (all a_i and b_i).
MaxChars == 8
\* In the trie specification: the total number of characters of the strings
\* the trie is made of, and the longest substring searched for.
MaxTrieChars == 4
MaxQuery == 2

\* The lowercase letters the input strings are made of.
Letters == {1, 2}

\* The string 'IMPOSSIBLE': upper case, so its first character sorts before
\* every lowercase letter; code 0 stands for it.
IMPOSSIBLE == <<0>>

Min2(x, y) == IF x <= y THEN x ELSE y

Range(f) == {f[x] : x \in DOMAIN f}

\* Strings of exactly n letters, and of 1..n letters.
StringsOfLen(n) == [1..n -> Letters]
StringsUpTo(n) == UNION {StringsOfLen(k) : k \in 1..n}

\* An input is drawn as the lengths of its strings and the text they are cut
\* from: lens[j] is the length of the j-th string, w the concatenation.
RECURSIVE Before(_, _)
Before(lens, j) == IF j <= 1 THEN 0 ELSE Before(lens, j - 1) + lens[j - 1]

Total(lens) == Before(lens, Len(lens) + 1)

Piece(lens, w, j) == SubSeq(w, Before(lens, j) + 1, Before(lens, j) + lens[j])

\* a_lines / b_lines of one case of n pairs, as read by the main loop
\* (0-based): line i holds the strings 2i+1 and 2i+2 of the text.
ALines(n, lens, w) == [i \in 0..(n - 1) |-> Piece(lens, w, 2 * i + 1)]
BLines(n, lens, w) == [i \in 0..(n - 1) |-> Piece(lens, w, 2 * i + 2)]

(***************************************************************************)
(* Python string operations                                                *)
(***************************************************************************)
startswith(x, y) == Len(y) <= Len(x) /\ SubSeq(x, 1, Len(y)) = y

endswith(x, y) == Len(y) <= Len(x) /\ SubSeq(x, Len(x) - Len(y) + 1, Len(x)) = y

\* x < y on Python strings: by character code, a proper prefix first.
RECURSIVE StrLess(_, _)
StrLess(x, y) ==
    IF y = <<>> THEN FALSE
    ELSE IF x = <<>> THEN TRUE
    ELSE IF x[1] # y[1] THEN x[1] < y[1]
    ELSE StrLess(Tail(x), Tail(y))

\* min(x, y) of Python: the first argument unless the second is smaller.
StrMinFirst(x, y) == x
StrMin(x, y) == IF StrLess(y, x) THEN y ELSE x

(***************************************************************************)
(* The trie: a function from paths (the letters from the root) to nodes.   *)
(* A node made by make_tree is the record [end, part]; a node a defaultdict*)
(* created on a read is the empty dict << >>.  Child keys are the paths    *)
(* one letter longer.                                                      *)
(***************************************************************************)
EmptyNode == <<>>

Children(t, p) == {q \in DOMAIN t : Len(q) = Len(p) + 1 /\ SubSeq(q, 1, Len(p)) = p}

\* len(node): the keys 'end' and 'part' it holds plus its child keys.
NodeLen(t, p) == Cardinality(DOMAIN t[p]) + Cardinality(Children(t, p))

\* node[letter] on a defaultdict: the child is created, empty, when missing.
GetItem(t, p) == IF p \in DOMAIN t THEN t ELSE [q \in DOMAIN t \cup {p} |-> IF q = p THEN EmptyNode ELSE t[q]]

\* The visit of a node without the add(idx).
VisitNoAdd(t, p, idx) ==
    LET t1 == GetItem(t, p)
        old == IF DOMAIN t1[p] = {} THEN [end |-> {}, part |-> {}] ELSE t1[p]
    IN [t1 EXCEPT ![p] = [end |-> old.end, part |-> old.part]]

\* setdefault('end', set()); setdefault('part', set()).add(idx)
Visit(t, p, idx) ==
    LET t1 == GetItem(t, p)
        old == IF DOMAIN t1[p] = {} THEN [end |-> {}, part |-> {}] ELSE t1[p]
    IN [t1 EXCEPT ![p] = [end |-> old.end, part |-> old.part \cup {idx}]]

\* The inner loop of make_tree from letter k on, then the two updates of the
\* terminal node.
RECURSIVE Insert(_, _, _, _)
Insert(t, string, k, idx) ==
    IF k > Len(string)
    THEN LET p == string IN [t EXCEPT ![p] = [end |-> t[p].end \cup {idx}, part |-> t[p].part \ {idx}]]
    ELSE Insert(Visit(t, SubSeq(string, 1, k), idx), string, k + 1, idx)

RECURSIVE InsertAll(_, _, _)
InsertAll(t, strings, idx) ==
    IF idx \notin DOMAIN strings THEN t
    ELSE InsertAll(Insert(t, strings[idx], 1, idx), strings, idx + 1)

make_tree(strings) ==
    InsertAll([p \in {<<>>} |-> [end |-> {}, part |-> DOMAIN strings]], strings, 0)

\* The while loop of search_in_tree at position idx (0-based) with node at
\* path p; the test of the loop reads node[substring[idx]] and so creates it.
RECURSIVE SearchLoop(_, _, _, _)
SearchLoop(t, substring, idx, acc) ==
    LET p == SubSeq(substring, 1, idx) IN
    IF idx < Len(substring)
    THEN LET c == SubSeq(substring, 1, idx + 1)
             t1 == GetItem(t, c)
         IN IF NodeLen(t1, c) # 0
            THEN SearchLoop(t1, substring, idx + 1, acc \cup t1[c].end)
            ELSE [options |-> acc, tree |-> t1]
    ELSE [options |-> acc \cup t[p].part, tree |-> t]

\* search_in_tree without the update by the last node's part set.
search_ends_only(t, substring) ==
    LET r == SearchLoop(t, substring, 0, {})
    IN [options |-> IF substring \in DOMAIN t /\ DOMAIN t[substring] # {}
                    THEN r.options \ t[substring].part
                    ELSE r.options,
        tree |-> r.tree]

\* search_in_tree: the set returned and the tree as the call leaves it.
search_in_tree(t, substring) == SearchLoop(t, substring, 0, {})

(***************************************************************************)
(* The filters                                                             *)
(***************************************************************************)
\* prefix_filter reads the globals a_lines / b_lines, the lists the object
\* was built from.
prefix_filter(a, b) == {s \in DOMAIN a : startswith(a[s], b[s]) \/ startswith(b[s], a[s])}

postfix_filter(a, b) == {s \in DOMAIN a : endswith(a[s], b[s]) \/ endswith(b[s], a[s])}

\* itertools.combinations(range(lo, hi + 1), k), in its order, as tuples.
RECURSIVE combinations(_, _, _)
combinations(lo, hi, k) ==
    IF k = 0 THEN <<<<>>>>
    ELSE IF hi - lo + 1 < k THEN <<>>
    ELSE LET with == combinations(lo + 1, hi, k - 1)
         IN [j \in 1..Len(with) |-> <<lo>> \o with[j]] \o combinations(lo + 1, hi, k)

\* Every combination of 1..n of the n indices: the two nested loops of
\* length_balance_filter.
RECURSIVE AllCombinations(_, _)
AllCombinations(n, s_number) ==
    IF s_number > n THEN <<>>
    ELSE combinations(0, n - 1, s_number) \o AllCombinations(n, s_number + 1)

RECURSIVE SumLen(_, _)
SumLen(strings, combination) ==
    IF combination = <<>> THEN 0
    ELSE Len(strings[Head(combination)]) + SumLen(strings, Tail(combination))

\* dict.setdefault(key, []).append(value)
DictAppend(d, key, value) ==
    [k \in DOMAIN d \cup {key} |-> IF k = key
                                   THEN (IF key \in DOMAIN d THEN d[key] ELSE <<>>) \o <<value>>
                                   ELSE d[k]]

EmptyDict == [k \in {} |-> <<>>]

RECURSIVE LengthLoop(_, _, _, _, _, _)
LengthLoop(a, b, begs, ends, combs, d) ==
    IF combs = <<>> THEN d
    ELSE LET combination == Head(combs)
             a_length_sum == SumLen(a, combination)
             b_length_sum == SumLen(b, combination)
             keep == /\ a_length_sum = b_length_sum
                     /\ Range(combination) \cap begs # {}
                     /\ Range(combination) \cap ends # {}
         IN LengthLoop(a, b, begs, ends, Tail(combs),
                       IF keep THEN DictAppend(d, a_length_sum, combination) ELSE d)

\* length_balance_filter with the sizes starting at 2.
length_balance_filter_from_two(a, b, s_options_for_beginning, s_options_for_ending) ==
    LengthLoop(a, b, s_options_for_beginning, s_options_for_ending,
               AllCombinations(Cardinality(DOMAIN a), 2), EmptyDict)

length_balance_filter(a, b, s_options_for_beginning, s_options_for_ending) ==
    LengthLoop(a, b, s_options_for_beginning, s_options_for_ending,
               AllCombinations(Cardinality(DOMAIN a), 1), EmptyDict)

\* ''.join([strings[s] for s in combination])
RECURSIVE Join(_, _)
Join(strings, combination) ==
    IF combination = <<>> THEN <<>>
    ELSE strings[Head(combination)] \o Join(strings, Tail(combination))

\* Counter(x) == Counter(y)
Count(x, c) == Cardinality({i \in DOMAIN x : x[i] = c})
CounterEq(x, y) == \A c \in Range(x) \cup Range(y) : Count(x, c) = Count(y, c)

\* The combinations of one list that elements_balance_filter keeps.
RECURSIVE ElementsLoop(_, _, _)
ElementsLoop(a, b, combs) ==
    IF combs = <<>> THEN <<>>
    ELSE LET combination == Head(combs)
             rest == ElementsLoop(a, b, Tail(combs))
         IN IF CounterEq(Join(a, combination), Join(b, combination))
            THEN <<combination>> \o rest
            ELSE rest

elements_balance_filter(a, b, s_combinations_by_length) ==
    LET kept == [length \in DOMAIN s_combinations_by_length |->
                    ElementsLoop(a, b, s_combinations_by_length[length])]
    IN [length \in {l \in DOMAIN kept : kept[l] # <<>>} |-> kept[length]]

\* sorted(d.items()): the (length, combinations) pairs by ascending length.
RECURSIVE sorted_descending(_)
sorted_descending(d) ==
    IF DOMAIN d = {} THEN <<>>
    ELSE LET m == CHOOSE l \in DOMAIN d : \A k \in DOMAIN d : k <= l
         IN <<<<m, d[m]>>>> \o sorted_descending([k \in DOMAIN d \ {m} |-> d[k]])

RECURSIVE sorted(_)
sorted(d) ==
    IF DOMAIN d = {} THEN <<>>
    ELSE LET m == CHOOSE l \in DOMAIN d : \A k \in DOMAIN d : l <= k
         IN <<<<m, d[m]>>>> \o sorted([k \in DOMAIN d \ {m} |-> d[k]])

(***************************************************************************)
(* The state of one ModifiedPCP object and of the call of solve on it      *)
(***************************************************************************)
VARIABLES
    a_strings, b_strings,        \* self.a_strings, self.b_strings
    final_sequence,              \* self.final_sequence ('' is << >>)
    a_tree, b_tree,              \* self.a_tree, self.b_tree
    s_options_for_beginning,     \* self.s_options_for_beginning
    s_options_for_ending,        \* self.s_options_for_ending
    s_combinations_by_length,    \* self.s_combinations_by_length
    s_combinations_filtered,     \* self.s_combinations_filtered
    combination,                 \* self.combination
    gi, ci,                      \* positions of the two for loops of solve
    stack,                       \* the active calls of dfs, innermost last
    substring, s_options,        \* locals of the latest trie search
    pc,                          \* where solve stands
    solve_calls,                 \* how many times solve was called
    returned                     \* final_sequence at each return of solve

vars == <<a_strings, b_strings, final_sequence, a_tree, b_tree,
          s_options_for_beginning, s_options_for_ending,
          s_combinations_by_length, s_combinations_filtered, combination,
          gi, ci, stack, substring, s_options, pc, solve_calls, returned>>

input == <<a_strings, b_strings>>
trees == <<a_tree, b_tree>>
filters == <<s_options_for_beginning, s_options_for_ending,
             s_combinations_by_length, s_combinations_filtered>>
loops == <<combination, gi, ci>>
search == <<substring, s_options>>

NoTree == [p \in {} |-> EmptyNode]

\* __init__: the object right before its call of solve.
Init ==
    /\ \E n \in 1..(MaxChars \div 2) :
       \E lens \in [1..(2 * n) -> 1..(MaxChars - 2 * n + 1)] :
          /\ Total(lens) <= MaxChars
          /\ \E w \in StringsOfLen(Total(lens)) :
                /\ a_strings = ALines(n, lens, w)
                /\ b_strings = BLines(n, lens, w)
    /\ final_sequence = <<>>
    /\ a_tree = NoTree
    /\ b_tree = NoTree
    /\ s_options_for_beginning = {}
    /\ s_options_for_ending = {}
    /\ s_combinations_by_length = EmptyDict
    /\ s_combinations_filtered = <<>>
    /\ combination = <<>>
    /\ gi = 0
    /\ ci = 0
    /\ stack = <<>>
    /\ substring = <<>>
    /\ s_options = {}
    /\ pc = "solve"
    /\ solve_calls = 1
    /\ returned = <<>>

\* self.final_sequence = 'IMPOSSIBLE'; return   /   return
Return(result) ==
    /\ final_sequence' = result
    /\ returned' = Append(returned, result)
    /\ pc' = "done"

MakeTrees ==
    /\ pc = "solve"
    /\ a_tree' = make_tree(a_strings)
    /\ b_tree' = make_tree(b_strings)
    /\ pc' = "prefix"
    /\ UNCHANGED <<input, final_sequence, filters, loops, stack, search, solve_calls, returned>>

PrefixFilter ==
    /\ pc = "prefix"
    /\ s_options_for_beginning' = prefix_filter(a_strings, b_strings)
    /\ IF Cardinality(s_options_for_beginning') = 0
       THEN Return(IMPOSSIBLE)
       ELSE pc' = "postfix" /\ UNCHANGED <<final_sequence, returned>>
    /\ UNCHANGED <<input, trees, s_options_for_ending, s_combinations_by_length,
                   s_combinations_filtered, loops, stack, search, solve_calls>>

PostfixFilter ==
    /\ pc = "postfix"
    /\ s_options_for_ending' = postfix_filter(a_strings, b_strings)
    /\ IF Cardinality(s_options_for_ending') = 0
       THEN Return(IMPOSSIBLE)
       ELSE pc' = "length" /\ UNCHANGED <<final_sequence, returned>>
    /\ UNCHANGED <<input, trees, s_options_for_beginning, s_combinations_by_length,
                   s_combinations_filtered, loops, stack, search, solve_calls>>

LengthBalanceFilter ==
    /\ pc = "length"
    /\ s_combinations_by_length' =
          length_balance_filter(a_strings, b_strings, s_options_for_beginning, s_options_for_ending)
    /\ IF DOMAIN s_combinations_by_length' = {}
       THEN Return(IMPOSSIBLE)
       ELSE pc' = "elements" /\ UNCHANGED <<final_sequence, returned>>
    /\ UNCHANGED <<input, trees, s_options_for_beginning, s_options_for_ending,
                   s_combinations_filtered, loops, stack, search, solve_calls>>

\* elements_balance_filter, its fail-fast exit, and the sort.
ElementsBalanceFilter ==
    /\ pc = "elements"
    /\ LET s_combinations_by_elements ==
              elements_balance_filter(a_strings, b_strings, s_combinations_by_length)
       IN IF DOMAIN s_combinations_by_elements = {}
          THEN Return(IMPOSSIBLE) /\ UNCHANGED <<s_combinations_filtered, gi, ci>>
          ELSE /\ s_combinations_filtered' = sorted(s_combinations_by_elements)
               /\ gi' = 1
               /\ ci' = 1
               /\ pc' = "loop"
               /\ UNCHANGED <<final_sequence, returned>>
    /\ UNCHANGED <<input, trees, s_options_for_beginning, s_options_for_ending,
                   s_combinations_by_length, combination, stack, search, solve_calls>>

(***************************************************************************)
(* dfs                                                                     *)
(***************************************************************************)
\* a_sequence_new[start:end] == b_sequence_new[start:end]
WindowAny(a_sequence_new, b_sequence_new, start, end) == TRUE
WindowMatches(a_sequence_new, b_sequence_new, start, end) ==
    SubSeq(a_sequence_new, start + 1, end) = SubSeq(b_sequence_new, start + 1, end)

\* The update of self.final_sequence on a complete alignment.
RecordLast(final, a_sequence_new) == a_sequence_new
Record(final, a_sequence_new) ==
    IF final = <<>> THEN a_sequence_new ELSE StrMin(final, a_sequence_new)

\* s_taken_new = s_taken.copy(); s_taken_new.add(s)
TakenCopyOnly(s_taken, s) == s_taken
TakenNew(s_taken, s) == s_taken \cup {s}

\* The head of dfs: the choice of s_options, by a trie search when one
\* sequence is ahead, and the new innermost call on top of `below`.
Call(below, s_taken, a_sequence, b_sequence, a_index, b_index) ==
    LET sub == IF a_index < b_index THEN SubSeq(b_sequence, a_index + 1, Len(b_sequence))
               ELSE IF a_index > b_index THEN SubSeq(a_sequence, b_index + 1, Len(a_sequence))
               ELSE substring
        r == IF a_index < b_index THEN search_in_tree(a_tree, sub)
             ELSE IF a_index > b_index THEN search_in_tree(b_tree, sub)
             ELSE [options |-> s_options_for_beginning, tree |-> NoTree]
    IN /\ a_tree' = IF a_index < b_index THEN r.tree ELSE a_tree
       /\ b_tree' = IF a_index > b_index THEN r.tree ELSE b_tree
       /\ substring' = sub
       /\ s_options' = r.options
       /\ stack' = Append(below, [s_taken |-> s_taken,
                                  a_sequence |-> a_sequence, b_sequence |-> b_sequence,
                                  a_index |-> a_index, b_index |-> b_index,
                                  todo |-> r.options])

Top == stack[Len(stack)]

\* The stack with s removed from what the innermost loop still has to visit.
Visited(s) == [stack EXCEPT ![Len(stack)].todo = @ \ {s}]

Usable(s) == s \in Range(combination) /\ s \notin Top.s_taken

a_sequence_new(s) == Top.a_sequence \o a_strings[s]
b_sequence_new(s) == Top.b_sequence \o b_strings[s]
a_index_new(s) == Top.a_index + Len(a_strings[s])
b_index_new(s) == Top.b_index + Len(b_strings[s])

Matches(s) ==
    WindowMatches(a_sequence_new(s), b_sequence_new(s),
                  Min2(Top.a_index, Top.b_index), Min2(a_index_new(s), b_index_new(s)))

\* for combination in combinations: self.combination = combination; self.dfs()
StartCombination ==
    /\ pc = "loop"
    /\ gi <= Len(s_combinations_filtered)
    /\ ci <= Len(s_combinations_filtered[gi][2])
    /\ combination' = s_combinations_filtered[gi][2][ci]
    /\ Call(<<>>, {}, <<>>, <<>>, 0, 0)
    /\ pc' = "dfs"
    /\ UNCHANGED <<input, final_sequence, filters, gi, ci, solve_calls, returned>>

\* An s that is not in the combination or already taken.
DfsSkip ==
    /\ pc = "dfs" /\ stack # <<>>
    /\ \E s \in Top.todo :
          /\ ~Usable(s)
          /\ stack' = Visited(s)
    /\ UNCHANGED <<input, final_sequence, trees, filters, loops, search, pc, solve_calls, returned>>

\* The new window differs: the branch is dropped.
DfsMismatch ==
    /\ pc = "dfs" /\ stack # <<>>
    /\ \E s \in Top.todo :
          /\ Usable(s)
          /\ ~Matches(s)
          /\ stack' = Visited(s)
    /\ UNCHANGED <<input, final_sequence, trees, filters, loops, search, pc, solve_calls, returned>>

\* Both sequences end together: final_sequence is updated, then continue.
DfsRecord ==
    /\ pc = "dfs" /\ stack # <<>>
    /\ \E s \in Top.todo :
          /\ Usable(s)
          /\ Matches(s)
          /\ a_index_new(s) = b_index_new(s)
          /\ final_sequence' = Record(final_sequence, a_sequence_new(s))
          /\ stack' = Visited(s)
    /\ UNCHANGED <<input, trees, filters, loops, search, pc, solve_calls, returned>>

\* One sequence is still ahead: the recursive call.
DfsRecurse ==
    /\ pc = "dfs" /\ stack # <<>>
    /\ \E s \in Top.todo :
          /\ Usable(s)
          /\ Matches(s)
          /\ a_index_new(s) # b_index_new(s)
          /\ Call(Visited(s), TakenNew(Top.s_taken, s), a_sequence_new(s), b_sequence_new(s),
                  a_index_new(s), b_index_new(s))
    /\ UNCHANGED <<input, final_sequence, filters, loops, pc, solve_calls, returned>>

\* The for loop of the innermost call is over: it returns, to its caller or
\* to the loop over the combinations in solve.
DfsReturn ==
    /\ pc = "dfs" /\ stack # <<>>
    /\ Top.todo = {}
    /\ stack' = SubSeq(stack, 1, Len(stack) - 1)
    /\ IF Len(stack) = 1
       THEN pc' = "loop" /\ ci' = ci + 1
       ELSE UNCHANGED <<pc, ci>>
    /\ UNCHANGED <<input, final_sequence, trees, filters, combination, gi, search,
                   solve_calls, returned>>

\* After the combinations of one length: return as soon as there is a sequence.
GroupReturn ==
    /\ pc = "loop"
    /\ gi <= Len(s_combinations_filtered)
    /\ ci > Len(s_combinations_filtered[gi][2])
    /\ final_sequence # <<>>
    /\ Return(final_sequence)
    /\ UNCHANGED <<input, trees, filters, loops, stack, search, solve_calls>>

GroupNext ==
    /\ pc = "loop"
    /\ gi <= Len(s_combinations_filtered)
    /\ ci > Len(s_combinations_filtered[gi][2])
    /\ final_sequence = <<>>
    /\ gi' = gi + 1
    /\ ci' = 1
    /\ UNCHANGED <<input, final_sequence, trees, filters, combination, stack, search, pc,
                   solve_calls, returned>>

\* otherwise - return 'IMPOSSIBLE'
Exhausted ==
    /\ pc = "loop"
    /\ gi > Len(s_combinations_filtered)
    /\ IF final_sequence = <<>>
       THEN Return(IMPOSSIBLE)
       ELSE Return(final_sequence)
    /\ UNCHANGED <<input, trees, filters, loops, stack, search, solve_calls>>

Next ==
    \/ MakeTrees
    \/ PrefixFilter
    \/ PostfixFilter
    \/ LengthBalanceFilter
    \/ ElementsBalanceFilter
    \/ StartCombination
    \/ DfsSkip
    \/ DfsMismatch
    \/ DfsRecord
    \/ DfsRecurse
    \/ DfsReturn
    \/ GroupReturn
    \/ GroupNext
    \/ Exhausted

Spec == Init /\ [][Next]_vars

(***************************************************************************)
(* A second call of solve on the same object: final_sequence, the tries    *)
(* and the filter results of the first call are still there.               *)
(***************************************************************************)
SolveAgain ==
    /\ pc = "done"
    /\ solve_calls = 1
    /\ solve_calls' = solve_calls + 1
    /\ pc' = "solve"
    /\ UNCHANGED <<input, final_sequence, trees, filters, loops, stack, search, returned>>

NextAgain ==
    \/ Next
    \/ SolveAgain

SpecAgain == Init /\ [][NextAgain]_vars

(***************************************************************************)
(* The trie alone: make_tree on a list of strings, then any searches.      *)
(***************************************************************************)
InitTrie ==
    /\ \E n \in 1..MaxTrieChars :
       \E lens \in [1..n -> 1..(MaxTrieChars - n + 1)] :
          /\ Total(lens) <= MaxTrieChars
          /\ \E w \in StringsOfLen(Total(lens)) :
                a_strings = [i \in 0..(n - 1) |-> Piece(lens, w, i + 1)]
    /\ b_strings = a_strings
    /\ final_sequence = <<>>
    /\ a_tree = make_tree(a_strings)
    /\ b_tree = make_tree(b_strings)
    /\ s_options_for_beginning = {}
    /\ s_options_for_ending = {}
    /\ s_combinations_by_length = EmptyDict
    /\ s_combinations_filtered = <<>>
    /\ combination = <<>>
    /\ gi = 0
    /\ ci = 0
    /\ stack = <<>>
    /\ substring = <<>>
    /\ s_options = {}
    /\ pc = "search"
    /\ solve_calls = 1
    /\ returned = <<>>

SearchTree ==
    /\ pc = "search"
    /\ \E q \in StringsUpTo(MaxQuery) :
          LET r == search_in_tree(a_tree, q)
          IN /\ substring' = q
             /\ s_options' = r.options
             /\ a_tree' = r.tree
    /\ UNCHANGED <<input, final_sequence, b_tree, filters, loops, stack, pc, solve_calls, returned>>

NextTrie == SearchTree

SpecTrie == InitTrie /\ [][NextTrie]_vars

(***************************************************************************)
(* What the properties are stated with                                     *)
(***************************************************************************)
\* The sequences that use every element of S exactly once.
RECURSIVE Orderings(_)
Orderings(S) ==
    IF S = {} THEN {<<>>}
    ELSE UNION {{<<x>> \o p : p \in Orderings(S \ {x})} : x \in S}

\* The non-empty sequences of pairwise distinct elements of S.
DistinctSeqs(S) == UNION {Orderings(T) : T \in (SUBSET S) \ {{}}}

RECURSIVE Concat(_, _)
Concat(strings, p) ==
    IF p = <<>> THEN <<>> ELSE strings[p[1]] \o Concat(strings, Tail(p))

\* The valid matches of the input, and those inside a set of indices.
MatchesIn(S) == {p \in DistinctSeqs(S) : Concat(a_strings, p) = Concat(b_strings, p)}
AllMatches == MatchesIn(DOMAIN a_strings)

IsPrefix(x, y) == Len(x) <= Len(y) /\ \A k \in 1..Len(x) : x[k] = y[k]

\* x <= y in the lexicographic order of strings.
LexLE(x, y) ==
    \/ IsPrefix(x, y)
    \/ \E k \in 1..Min2(Len(x), Len(y)) :
          /\ \A j \in 1..(k - 1) : x[j] = y[j]
          /\ x[k] < y[k]

Solved == pc = "done" /\ final_sequence # IMPOSSIBLE

\* C1: whenever dfs records a string as final_sequence, the string is the
\* a-concatenation and the b-concatenation of one sequence of pairwise
\* distinct indices of the current combination; so every result of solve
\* other than IMPOSSIBLE is a real match using no index twice.
C1_Soundness ==
    [][(final_sequence' # final_sequence /\ final_sequence' # IMPOSSIBLE)
         => \E p \in DistinctSeqs(Range(combination)) :
               /\ Concat(a_strings, p) = final_sequence'
               /\ Concat(b_strings, p) = final_sequence']_vars

C1_Witness ==
    /\ pc = "dfs"
    /\ Len(combination) >= 2
    /\ Len(final_sequence) = SumLen(a_strings, combination)
    /\ \E p \in Orderings(Range(combination)) : Concat(a_strings, p) = final_sequence

\* C2: solve ends with IMPOSSIBLE if and only if the input has no valid
\* match (no non-empty sequence of pairwise distinct indices with equal
\* a- and b-concatenation).
C2_Completeness ==
    pc = "done" => ((final_sequence = IMPOSSIBLE) <=> (AllMatches = {}))

\* The search ran on combinations that passed all four filters and found none.
C2_Witness ==
    /\ pc = "done"
    /\ final_sequence = IMPOSSIBLE
    /\ s_combinations_filtered # <<>>

\* C3: a result other than IMPOSSIBLE is no longer than the concatenation
\* of any valid match.
C3_Shortest ==
    Solved => \A p \in AllMatches : Len(final_sequence) <= Len(Concat(a_strings, p))

C3_Witness ==
    /\ Solved
    /\ \E p \in AllMatches : Len(final_sequence) < Len(Concat(a_strings, p))

\* C4: a result other than IMPOSSIBLE is lexicographically less than or
\* equal to the concatenation of every valid match of the same total length,
\* whatever combination the match is made of.
C4_LexMin ==
    Solved => \A p \in AllMatches :
                 Len(Concat(a_strings, p)) = Len(final_sequence)
                    => LexLE(final_sequence, Concat(a_strings, p))

\* Two matches of the result's length, made of different index sets, with
\* different strings.
C4_Witness ==
    /\ Solved
    /\ \E p, q \in AllMatches :
          /\ Concat(a_strings, q) = final_sequence
          /\ Len(Concat(a_strings, p)) = Len(final_sequence)
          /\ Concat(a_strings, p) # final_sequence
          /\ Range(p) # Range(q)

\* C5: in every call of dfs made by solve, an index whose strings make the
\* two sequences end together (so that dfs records the new a-sequence) is
\* the last unused index of the combination: the recorded string uses every
\* index of the combination exactly once and has the combination's total
\* a-length.
C5_FullConsumption ==
    (pc = "dfs" /\ stack # <<>>) =>
       \A s \in Top.todo :
          (Usable(s) /\ Matches(s) /\ a_index_new(s) = b_index_new(s))
             => /\ Top.s_taken \cup {s} = Range(combination)
                /\ Len(a_sequence_new(s)) = SumLen(a_strings, combination)

C5_Witness ==
    /\ pc = "dfs" /\ stack # <<>>
    /\ Len(combination) >= 2
    /\ \E s \in Top.todo : Usable(s) /\ Matches(s) /\ a_index_new(s) = b_index_new(s)

\* C6 as claimed: once there is a solution, no further combination is run.
C6_FirstCombinationWins ==
    [][(pc = "loop" /\ pc' = "dfs") => final_sequence = <<>>]_vars

\* C6, amended: a combination that is run while a solution is already there
\* is a later combination of the same length group (its total length is the
\* solution's), and solve returns a solution only after the last combination
\* of a length group.
C6_GroupWins ==
    [][/\ (pc = "loop" /\ pc' = "dfs" /\ final_sequence # <<>>)
            => /\ ci > 1
               /\ SumLen(a_strings, combination') = Len(final_sequence)
       /\ (pc = "loop" /\ pc' = "done" /\ final_sequence' # IMPOSSIBLE)
            => /\ gi <= Len(s_combinations_filtered)
               /\ ci = Len(s_combinations_filtered[gi][2]) + 1]_vars

\* A later combination of the group has replaced the first one's solution.
C6_Witness ==
    /\ pc = "dfs"
    /\ ci > 1
    /\ final_sequence # <<>>
    /\ \A p \in Orderings(Range(s_combinations_filtered[gi][2][1])) :
          Concat(a_strings, p) # final_sequence
    /\ MatchesIn(Range(s_combinations_filtered[gi][2][1])) # {}

\* C7: every call of solve on the same object returns the same result,
\* whatever order the candidate sets are iterated in.
C7_Idempotent ==
    \A i \in 1..Len(returned) : returned[i] = returned[1]

C7_Witness ==
    /\ Len(returned) >= 2
    /\ returned[2] # IMPOSSIBLE
    /\ \E p \in AllMatches :
          /\ Len(Concat(a_strings, p)) = Len(returned[2])
          /\ Concat(a_strings, p) # returned[2]

\* C8: search_in_tree returns exactly the indices whose string is a prefix
\* of the substring or has the substring as a strict prefix.
C8_SearchResult ==
    substring # <<>> =>
       s_options = {i \in DOMAIN a_strings :
                       \/ IsPrefix(a_strings[i], substring)
                       \/ (IsPrefix(substring, a_strings[i]) /\ substring # a_strings[i])}

\* A walk that stopped early and still returned an index.
C8_Witness ==
    /\ substring # <<>>
    /\ substring \notin DOMAIN make_tree(a_strings)
    /\ s_options # {}

\* C9: no call of search_in_tree changes a trie.
C9_ReadOnly ==
    [][a_tree' = a_tree /\ b_tree' = b_tree]_vars

\* C10: in every active call of dfs, a_index and b_index are the lengths of
\* the two sequences, the sequences agree on their common length, and
\* s_taken is the set of the pairwise distinct indices whose strings were
\* appended, in one order, to build both.
C10_SearchState ==
    \A k \in 1..Len(stack) :
       LET f == stack[k]
       IN /\ f.a_index = Len(f.a_sequence)
          /\ f.b_index = Len(f.b_sequence)
          /\ \A j \in 1..Min2(f.a_index, f.b_index) : f.a_sequence[j] = f.b_sequence[j]
          /\ \E p \in Orderings(f.s_taken) :
                /\ Concat(a_strings, p) = f.a_sequence
                /\ Concat(b_strings, p) = f.b_sequence

C10_Witness ==
    /\ pc = "dfs" /\ stack # <<>>
    /\ Cardinality(Top.s_taken) >= 2

====
